---- MODULE Spec2Model ----
(***************************************************************************)
(* Model of noaapaleopy (src/src/noaapaleopy/noaadataset.py):              *)
(*   - NOAATable.from_txtfile : header scan, "##" declaration parsing,     *)
(*     duplicate column renaming, tabular read;                            *)
(*   - NOAADataSet.__init__ / get_data / metadata cache.                   *)
(* Python strings are modelled as sequences of one-character strings so    *)
(* that split / replace / strip / concatenation are computed, not assumed. *)
(***************************************************************************)
EXTENDS Integers, Sequences, FiniteSets, TLC

VARIABLES
    \* ---- NOAATable.from_txtfile (one call) ----
    tpc,             \* position inside from_txtfile
    all_lines,       \* f.read().splitlines()
    pos,             \* number of lines the scan loop has processed
    skiprows,        \* counter "skip"
    intermediate,    \* counter "gap"
    parameter_lines, \* captured "##" declaration lines
    params,          \* list of this_param dicts
    columns,         \* column names, raw before and resolved after renaming
    raw_columns,     \* history: the names before renaming
    body             \* the lines handed to the tabular reader after skiprows

tableVars == <<tpc, all_lines, pos, skiprows, intermediate, parameter_lines,
               params, columns, raw_columns, body>>

VARIABLES
    \* ---- the world a NOAADataSet is built in ----
    metaFile,        \* <cachedir>/<id>.json: whether it exists, the document in it
    fs,              \* <cachedir>/<id>/...: local path -> absent, directory or file
    \* ---- NOAADataSet(id, cache) under construction ----
    bpc,             \* position inside __init__ / get_data
    cache,           \* self.cache
    metadata,        \* self.metadata
    link,            \* self.link
    doi,             \* self.doi
    title,           \* self.title
    data,            \* self.data, the rows
    dsparams,        \* self.params
    events,          \* self.events
    site_i,          \* index of the site being processed
    files,           \* the fileUrl list of that site, paleoData by paleoData
    file_n,          \* index into files
    event,           \* the NOAAEvent of that site
    result,          \* how the last finished call ended
    \* ---- history ----
    builds,          \* number of calls of NOAADataSet(...) started
    allCached,       \* every call so far had cache=True
    fetchCount,      \* number of requests.get of the metadata
    wasted,          \* fetches that raised or returned an empty document
    writeCount,      \* number of times the metadata cache file was written
    visited,         \* file references processed by the current call
    parsed,          \* calls of from_txtfile made by the current call
    tables,          \* tables from_txtfile returned to the current call
    caught           \* what the except clause of __init__ caught

worldVars == <<metaFile, fs>>
objVars   == <<bpc, cache, metadata, link, doi, title, data, dsparams, events,
               site_i, files, file_n, event, result>>
histVars  == <<builds, allCached, fetchCount, wasted, writeCount, visited,
               parsed, tables, caught>>
buildVars == <<worldVars, objVars, histVars>>

vars == <<tableVars, buildVars>>

None     == "None"
EmptyDoc == <<>>      \* the dict {}
IsEmpty(doc) == DOMAIN doc = {}

NoFile     == [exists |-> FALSE, doc |-> EmptyDoc]
FileOf(d)  == [exists |-> TRUE, doc |-> d]

Absent     == [kind |-> "absent", lines |-> <<>>]
Directory  == [kind |-> "dir", lines |-> <<>>]
Regular(l) == [kind |-> "file", lines |-> l]

\* no NOAADataSet is being built
BuildIdle ==
    /\ metaFile = NoFile /\ fs = <<>>
    /\ bpc = "idle"    /\ cache = TRUE  /\ metadata = EmptyDoc
    /\ link = None     /\ doi = None    /\ title = None
    /\ data = <<>>     /\ dsparams = <<>> /\ events = <<>>
    /\ site_i = 0      /\ files = <<>>  /\ file_n = 0 /\ event = None
    /\ result = "none"
    /\ builds = 0      /\ allCached = TRUE
    /\ fetchCount = 0  /\ wasted = 0    /\ writeCount = 0
    /\ visited = <<>>  /\ parsed = <<>> /\ tables = <<>> /\ caught = "none"

----------------------------------------------------------------------------
(* Bounds *)
MaxCols    == 4   \* longest raw column-name sequence given to the resolver
MaxLines   == 5   \* longest file given to the header scan
MaxLineLen == 5   \* longest declaration line given to the declaration parser
MaxBuilds  == 2   \* number of NOAADataSet(...) calls in one run

----------------------------------------------------------------------------
(* Python builtins on strings *)

Range(s) == {s[i] : i \in DOMAIN s}
Min(a, b) == IF a < b THEN a ELSE b

Whitespace == {" ", "\t"}

DigitChar == <<"0", "1", "2", "3", "4", "5", "6", "7", "8", "9">>

\* str(n) for a non-negative integer
RECURSIVE Str(_)
Str(n) == IF n < 10 THEN <<DigitChar[n + 1]>>
          ELSE Str(n \div 10) \o <<DigitChar[(n % 10) + 1]>>

\* s.startswith(p)
StartsWith(s, p) == Len(s) >= Len(p) /\ SubSeq(s, 1, Len(p)) = p

\* s.split(sep), sep non-empty: pieces between non-overlapping occurrences,
\* found left to right; empty pieces are kept.
RECURSIVE SplitFrom(_, _, _)
SplitFrom(s, sep, cur) ==
    IF s = <<>> THEN <<cur>>
    ELSE IF StartsWith(s, sep)
         THEN <<cur>> \o SplitFrom(SubSeq(s, Len(sep) + 1, Len(s)), sep, <<>>)
         ELSE SplitFrom(Tail(s), sep, Append(cur, Head(s)))

Split(s, sep) == SplitFrom(s, sep, <<>>)

\* s.split(sep)[-1]
SplitLast(s, sep) == LET x == Split(s, sep) IN x[Len(x)]

\* s.split(): pieces between runs of whitespace; empty pieces are dropped.
RECURSIVE SplitWsFrom(_, _)
SplitWsFrom(s, cur) ==
    IF s = <<>> THEN (IF cur = <<>> THEN <<>> ELSE <<cur>>)
    ELSE IF Head(s) \in Whitespace
         THEN (IF cur = <<>> THEN <<>> ELSE <<cur>>) \o SplitWsFrom(Tail(s), <<>>)
         ELSE SplitWsFrom(Tail(s), Append(cur, Head(s)))

SplitWs(s) == SplitWsFrom(s, <<>>)

\* s.replace(p, ""), p non-empty: every non-overlapping occurrence of p,
\* found left to right, is removed.
RECURSIVE Replace(_, _)
Replace(s, p) ==
    IF s = <<>> THEN <<>>
    ELSE IF StartsWith(s, p) THEN Replace(SubSeq(s, Len(p) + 1, Len(s)), p)
         ELSE <<Head(s)>> \o Replace(Tail(s), p)

RECURSIVE LStrip(_)
LStrip(s) == IF s # <<>> /\ Head(s) \in Whitespace THEN LStrip(Tail(s)) ELSE s

RECURSIVE RStrip(_)
RStrip(s) == IF s # <<>> /\ s[Len(s)] \in Whitespace
             THEN RStrip(SubSeq(s, 1, Len(s) - 1)) ELSE s

\* s.strip()
Strip(s) == RStrip(LStrip(s))

----------------------------------------------------------------------------
(* NOAAParam *)

KaBP == <<"k","a"," ","B","P">>

\* keys of the dict "ages"; every key maps to "ka BP"
ages == {
     <<"c","a","l","e","n","d","a","r"," ","k","i","l","o","y","e","a","r"," ","b","e","f","o","r","e"," ","p","r","e","s","e","n","t">>,
     <<"c","a","l","e","n","d","a","r"," ","k","i","l","o","y","e","a","r","s"," ","b","e","f","o","r","e"," ","p","r","e","s","e","n","t">>,
     <<"c","a","l"," ","k","y","r"," ","B","P">>,
     <<"c","a","l","e","n","d","a","r"," ","k","y","e","a","r","s"," ","b","e","f","o","r","e"," ","p","r","e","s","e","n","t">>,
     <<"A","g","e","_","k","y","r">>,
     <<"c","a","l"," ","k","a"," ","B","P">>,
     <<"c","a","l","e","n","d","a","r"," ","k","a"," ","b","e","f","o","r","e"," ","1","9","5","0","A","D">>,
     <<"c","a","l","e","n","d","a","r"," ","k","i","l","o","y","e","a","r","s"," ","b","e","f","o","r","e"," ","1","9","5","0"," ","A","D">>,
     <<"c","a","l","e","n","d","a","r"," ","k","i","l","o","y","e","a","r","s"," ","b","e","f","o","r","e"," ","1","9","5","0">>,
     <<"c","a","l","e","n","d","a","r"," ","K","y","e","a","r","s"," ","b","e","f","o","r","e"," ","p","r","e","s","e","n","t">>,
     <<"k","y","r"," ","B","P">>,
     <<"k","y","r","s">>,
     <<"c","a","l","e","n","d","a","r"," ","k","a"," ","b","e","f","o","r","e"," ","p","r","e","s","e","n","t">>,
     <<"c","a","l"," ","k","i","l","o","y","e","a","r","s"," ","b","e","f","o","r","e"," ","p","r","e","s","e","n","t">> }

\* NOAAParam.__init__
NOAAParam(name, long_name, unit) ==
    [name |-> name, long_name |-> long_name,
     unit |-> IF unit \in ages THEN KaBP ELSE unit]

----------------------------------------------------------------------------
(* NOAATable.from_txtfile: the scan loop over all_lines *)

Hash     == <<"#">>
HashHash == <<"#", "#">>

IsComment(l) == StartsWith(l, Hash)

\* a mutant of one loop iteration: the non-comment lines seen since the last
\* comment line are not added to skiprows
ScanStepNoGap(st, l) ==
    [parameter_lines |->
        IF StartsWith(l, HashHash)
        THEN Append(st.parameter_lines, SplitLast(l, HashHash))
        ELSE st.parameter_lines,
     skiprows     |-> IF IsComment(l) THEN st.skiprows + 1 ELSE st.skiprows,
     intermediate |-> IF IsComment(l) THEN 0 ELSE st.intermediate + 1]

\* one iteration of "for l in all_lines"
ScanStep(st, l) ==
    [parameter_lines |->
        IF StartsWith(l, HashHash)
        THEN Append(st.parameter_lines, SplitLast(l, HashHash))
        ELSE st.parameter_lines,
     skiprows     |-> IF IsComment(l) THEN st.skiprows + 1 + st.intermediate
                      ELSE st.skiprows,
     intermediate |-> IF IsComment(l) THEN 0 ELSE st.intermediate + 1]

ScanInit == [parameter_lines |-> <<>>, skiprows |-> 0, intermediate |-> 0]

\* the whole loop
RECURSIVE ScanAll(_, _)
ScanAll(st, ls) == IF ls = <<>> THEN st ELSE ScanAll(ScanStep(st, Head(ls)), Tail(ls))

----------------------------------------------------------------------------
(* NOAATable.from_txtfile: "##" declaration lines *)

components == <<"what", "material", "error", "units", "seasonality",
                "archive", "detail", "method", "format">>

\* line.split()[0] raises IndexError when the line has no token
DeclRaises(line) == SplitWs(line) = <<>>

\* the dict this_param built from one declaration line
ParseDecl(line) ==
    LET p == SplitWs(line)[1]
        l == Replace(line, p)
        x == Split(l, <<",">>)
        n == Min(Len(x), Len(components))
    IN  [c \in {"name"} \cup {components[i] : i \in 1..n} |->
            IF c = "name" THEN Strip(p)
            ELSE Strip(x[CHOOSE i \in 1..n : components[i] = c])]

RECURSIVE ParseDecls(_)
ParseDecls(ls) == IF ls = <<>> THEN <<>>
                  ELSE <<ParseDecl(Head(ls))>> \o ParseDecls(Tail(ls))

----------------------------------------------------------------------------
(* NOAATable.from_txtfile: renaming of duplicate column names *)

Count(cols, a) == Cardinality({i \in DOMAIN cols : cols[i] = a})

\* the dict d: for a name counted b > 1 times the list ["", 1, .., b-1]
\* (the leading "" is written 0 here), otherwise the empty string ''
CounterD(cols) ==
    [a \in Range(cols) |->
        IF Count(cols, a) > 1 THEN [i \in 1..Count(cols, a) |-> i - 1]
        ELSE <<>>]

\* str(e) of a list element: "" for the leading element, the digits otherwise
SuffixStr(e) == IF e > 0 THEN Str(e) ELSE <<>>

\* a mutant: the numbering of the later occurrences starts one too high
RECURSIVE RenameOffByOne(_, _)
RenameOffByOne(cols, d) ==
    IF cols = <<>> THEN <<>>
    ELSE LET i == Head(cols) IN
         IF Len(d[i]) > 0
         THEN <<i \o (IF Head(d[i]) > 0 THEN Str(Head(d[i]) + 1) ELSE <<>>)>>
              \o RenameOffByOne(Tail(cols), [d EXCEPT ![i] = Tail(@)])
         ELSE <<i>> \o RenameOffByOne(Tail(cols), d)

\* [i+str(d[i].pop(0)) if len(d[i]) else i for i in columns]
RECURSIVE Rename(_, _)
Rename(cols, d) ==
    IF cols = <<>> THEN <<>>
    ELSE LET i == Head(cols) IN
         IF Len(d[i]) > 0
         THEN <<i \o SuffixStr(Head(d[i]))>>
              \o Rename(Tail(cols), [d EXCEPT ![i] = Tail(@)])
         ELSE <<i>> \o Rename(Tail(cols), d)

ColumnNameResolver(cols) == Rename(cols, CounterD(cols))

\* for i,p in enumerate(params): p["name"] = columns[i]
SetNames(ps, cols) == [i \in DOMAIN ps |-> [ps[i] EXCEPT !["name"] = cols[i]]]

----------------------------------------------------------------------------
(* NOAATable.from_txtfile: pd.read_csv and the table *)

Tab == <<"\t">>
NaN == <<"N", "a", "N">>

NonBlank(ls) == SelectSeq(ls, LAMBDA l : l # <<>>)

\* the lines left after skiprows=skiprows
SkipRows(ls, n) == SubSeq(ls, n + 1, Len(ls))

\* read_csv raises when nothing is left to read a header from, or when
\* usecols asks for more columns than the header line has
ReadCsvRaises(ls, n, cols) ==
    LET b == NonBlank(SkipRows(ls, n))
    IN  IF Len(b) = 0 THEN TRUE
        ELSE Len(cols) > Len(Split(b[1], Tab))

\* the rows read: the first line left is taken as the header, every later
\* line gives one row of the first len(columns) fields (short rows padded);
\* an empty usecols gives an empty frame.  Numeric conversion of the cells
\* is not modelled.
ReadCsv(ls, n, cols) ==
    LET b == NonBlank(SkipRows(ls, n))
        k == Len(cols)
    IN  IF k = 0 THEN <<>>
        ELSE [r \in 1..(Len(b) - 1) |->
                 LET f == Split(b[r + 1], Tab)
                 IN  [c \in 1..k |-> IF c <= Len(f) THEN f[c] ELSE NaN]]

\* noaa_params: resolved name -> NOAAParam (a later record of the same name
\* replaces an earlier one)
NoaaParams(ps) ==
    [nm \in {ps[i]["name"] : i \in DOMAIN ps} |->
        LET i == CHOOSE j \in DOMAIN ps :
                    /\ ps[j]["name"] = nm
                    /\ \A k \in DOMAIN ps : ps[k]["name"] = nm => k <= j
            p == ps[i]
        IN  NOAAParam(p["name"], p["what"],
                      IF "units" \in DOMAIN p THEN p["units"] ELSE <<>>)]

\* df with its column names and the three event columns added to every row
EventRows(rows, cols, ev) ==
    [r \in DOMAIN rows |->
        [columns |-> cols, cells |-> rows[r], Event |-> ev.label,
         Latitude |-> ev.lat, Longitude |-> ev.lon]]

\* from_txtfile as a whole: raised, or the NOAATable (params, data, event;
\* columns are the names given to df.columns)
FromTxtfile(ls, ev) ==
    LET st == ScanAll(ScanInit, ls)
    IN  IF \E i \in DOMAIN st.parameter_lines : DeclRaises(st.parameter_lines[i])
        THEN [raised |-> TRUE]
        ELSE LET ps0  == ParseDecls(st.parameter_lines)
                 cols == ColumnNameResolver([i \in DOMAIN ps0 |-> ps0[i]["name"]])
                 ps   == SetNames(ps0, cols)
             IN  IF ReadCsvRaises(ls, st.skiprows, cols)
                 THEN [raised |-> TRUE]
                 ELSE [raised |-> FALSE,
                       columns |-> cols,
                       params |-> NoaaParams(ps),
                       data   |-> EventRows(ReadCsv(ls, st.skiprows, cols), cols, ev),
                       event  |-> ev]

----------------------------------------------------------------------------
(* Inputs *)

\* all sequences over S of length 0..n
SeqsUpTo(S, n) == UNION {[1..k -> S] : k \in 0..n}

\* raw column names; "a1" is the name "a" followed by a digit
Names == {<<"a">>, <<"b">>, <<"a", "1">>}

\* file lines: comment lines, data lines, a declaration line, a declaration
\* marker with nothing after it
LineSet == {<<"#","h","1">>, <<"#","h","2">>, <<"#","h","3">>,
            <<"d","a","t","a","1">>, <<"d","a","t","a","2">>,
            <<"#","#","a">>, <<"#","#">>}

\* characters of a declaration line
DeclChars == {"a", "b", " ", ","}

----------------------------------------------------------------------------
(* NOAATable.from_txtfile, step by step *)

\* one iteration of the loop over all_lines; after the last line the
\* declaration lines are parsed
ScanLine ==
    /\ tpc = "scan"
    /\ pos < Len(all_lines)
    /\ LET st == ScanStep([parameter_lines |-> parameter_lines,
                           skiprows |-> skiprows,
                           intermediate |-> intermediate], all_lines[pos + 1])
       IN  /\ parameter_lines' = st.parameter_lines
           /\ skiprows' = st.skiprows
           /\ intermediate' = st.intermediate
    /\ pos' = pos + 1
    /\ tpc' = IF pos' = Len(all_lines) THEN "decl" ELSE "scan"
    /\ UNCHANGED <<all_lines, params, columns, raw_columns, body>>
    /\ UNCHANGED buildVars

\* "for line in parameter_lines" with every line holding a token
ParseParams ==
    /\ tpc = "decl"
    /\ \A i \in DOMAIN parameter_lines : ~DeclRaises(parameter_lines[i])
    /\ params' = ParseDecls(parameter_lines)
    /\ columns' = [i \in DOMAIN params' |-> params'[i]["name"]]
    /\ raw_columns' = columns'
    /\ tpc' = "resolve"
    /\ UNCHANGED <<all_lines, pos, skiprows, intermediate, parameter_lines, body>>
    /\ UNCHANGED buildVars

\* line.split()[0] raises IndexError
ParseParamsRaise ==
    /\ tpc = "decl"
    /\ \E i \in DOMAIN parameter_lines : DeclRaises(parameter_lines[i])
    /\ tpc' = "raised"
    /\ UNCHANGED <<all_lines, pos, skiprows, intermediate, parameter_lines,
                   params, columns, raw_columns, body>>
    /\ UNCHANGED buildVars

\* the duplicate renaming and the rewrite of the parameter records' names
ResolveColumns ==
    /\ tpc = "resolve"
    /\ columns' = ColumnNameResolver(columns)
    /\ params' = SetNames(params, columns')
    /\ tpc' = "read"
    /\ UNCHANGED <<all_lines, pos, skiprows, intermediate, parameter_lines,
                   raw_columns, body>>
    /\ UNCHANGED buildVars

\* pd.read_csv(..., skiprows=skiprows) succeeds
ReadTable ==
    /\ tpc = "read"
    /\ ~ReadCsvRaises(all_lines, skiprows, columns)
    /\ body' = SkipRows(all_lines, skiprows)
    /\ tpc' = "done"
    /\ UNCHANGED <<all_lines, pos, skiprows, intermediate, parameter_lines,
                   params, columns, raw_columns>>
    /\ UNCHANGED buildVars

\* pd.read_csv raises
ReadTableRaise ==
    /\ tpc = "read"
    /\ ReadCsvRaises(all_lines, skiprows, columns)
    /\ body' = SkipRows(all_lines, skiprows)
    /\ tpc' = "raised"
    /\ UNCHANGED <<all_lines, pos, skiprows, intermediate, parameter_lines,
                   params, columns, raw_columns>>
    /\ UNCHANGED buildVars

TableIdle ==
    /\ tpc = "idle"      /\ all_lines = <<>> /\ pos = 0
    /\ skiprows = 0      /\ intermediate = 0 /\ parameter_lines = <<>>
    /\ params = <<>>     /\ columns = <<>>   /\ raw_columns = <<>>
    /\ body = <<>>

\* a call of from_txtfile on a file of at most MaxLines lines
InitScan ==
    /\ all_lines \in SeqsUpTo(LineSet, MaxLines)
    /\ tpc = IF all_lines = <<>> THEN "decl" ELSE "scan"
    /\ pos = 0 /\ skiprows = 0 /\ intermediate = 0 /\ parameter_lines = <<>>
    /\ params = <<>> /\ columns = <<>> /\ raw_columns = <<>> /\ body = <<>>
    /\ BuildIdle

NextScan == ScanLine \/ ParseParams \/ ParseParamsRaise \/ ResolveColumns
            \/ ReadTable \/ ReadTableRaise

SpecScan == InitScan /\ [][NextScan]_vars

\* the declaration parser applied to one captured declaration line
InitDecl ==
    /\ parameter_lines \in {<<l>> : l \in SeqsUpTo(DeclChars, MaxLineLen)}
    /\ tpc = "decl"
    /\ all_lines = <<>> /\ pos = 0 /\ skiprows = 0 /\ intermediate = 0
    /\ params = <<>> /\ columns = <<>> /\ raw_columns = <<>> /\ body = <<>>
    /\ BuildIdle

NextDecl == ParseParams \/ ParseParamsRaise

SpecDecl == InitDecl /\ [][NextDecl]_vars

\* the renaming applied to the names of at most MaxCols parameter records
InitResolver ==
    /\ columns \in SeqsUpTo(Names, MaxCols)
    /\ raw_columns = columns
    /\ params = [i \in DOMAIN columns |-> [name |-> columns[i], what |-> <<>>]]
    /\ tpc = "resolve"
    /\ all_lines = <<>> /\ pos = 0 /\ skiprows = 0 /\ intermediate = 0
    /\ parameter_lines = <<>> /\ body = <<>>
    /\ BuildIdle

NextResolver == ResolveColumns

SpecResolver == InitResolver /\ [][NextResolver]_vars

----------------------------------------------------------------------------
(* The archive and the local cache directory *)

StudyId == 7

home     == <<"/","r","o","o","t">>
cachedir == home \o <<"/","n","o","a","a","p","a","l","e","o","p","y","_","c","a","c","h","e">>
table_dir == cachedir \o <<"/">> \o Str(StudyId)

\* table_dir+"/"+file_url.split("/")[-1]
LocalFile(url) == table_dir \o <<"/">> \o SplitLast(url, <<"/">>)

\* file_url.split(".")[-1]
Ext(path) == SplitLast(path, <<".">>)

TxtExt == <<"t","x","t">>

\* fileUrl values: three .txt files, a .csv file, a URL with an empty base name
U1 == <<"u","/","f","1",".","t","x","t">>
U2 == <<"u","/","f","2",".","t","x","t">>
U3 == <<"u","/","f","3",".","t","x","t">>
U4 == <<"u","/","f","4",".","c","s","v">>
U5 == <<"u","/">>
Urls == {U1, U2, U3, U4, U5}

\* what the archive serves under each URL
Remote(url) ==
    CASE url = U1 -> << <<"#"," ","c">>,
                     <<"#","#"," ","a","\t","w",",",",",",","k","y","r","s">>,
                     <<"#","#"," ","b","\t","v">>,
                     <<"a","\t","b">>,
                     <<"1","\t","2">> >>
      [] url = U2 -> << <<"#","#"," ","a","\t","w">>,
                     <<"#","#">>,
                     <<"a">>,
                     <<"1">> >>
      [] url = U3 -> << <<"#","#"," ","a","\t","x",",",",",",","m">>,
                     <<"#","#"," ","c","\t","y">>,
                     <<"a","\t","c">>,
                     <<"3","\t","4">>,
                     <<"5","\t","6">> >>
      [] url = U4 -> << <<"a",",","b">>,
                     <<"1",",","2">> >>
      [] OTHER    -> << <<"<","h","t","m","l",">">> >>

\* the path table_dir+"/" names table_dir itself, which os.makedirs has made
TableDirSlash == table_dir \o <<"/">>

LocalPaths == {LocalFile(u) : u \in Urls} \ {TableDirSlash}

\* os.path.exists, os.path.isdir
Exists(f, path) == IF path = TableDirSlash THEN TRUE ELSE f[path].kind # "absent"
IsDir(f, path)  == IF path = TableDirSlash THEN TRUE ELSE f[path].kind = "dir"

\* NOAATable.download: open(fnm,"wb") makes the file, then the request is
\* made and its content written; a request that raises leaves the file empty
Download(f, url, fnm, ok) ==
    [f EXCEPT ![fnm] = Regular(IF ok THEN Remote(url) ELSE <<>>)]

\* sites of the metadata documents: siteName, geo.geometry.coordinates and,
\* per paleoData entry, the fileUrl of each dataFile entry
SiteA == [siteName |-> "A", coordinates |-> <<10, 20>>,
          paleoData |-> << <<U1>>, <<U3>> >>]
SiteB == [siteName |-> "B", coordinates |-> <<30, 40>>,
          paleoData |-> << <<U3, U4, U5, U1>> >>]
SiteC == [siteName |-> "C", coordinates |-> <<50, 60>>,
          paleoData |-> << <<U1, U2>>, <<U3>> >>]

DocGood == [onlineResourceLink |-> "L1", doi |-> "D1", studyName |-> "T1",
            site |-> <<SiteA, SiteB>>]
DocBad  == [onlineResourceLink |-> "L2", doi |-> "D2", studyName |-> "T2",
            site |-> <<SiteC, SiteB>>]

Required == {"onlineResourceLink", "doi", "studyName", "site"}

Without(doc, k) == [f \in DOMAIN doc \ {k} |-> doc[f]]

\* documents the search service may return as response['study'][0]
Docs == {DocGood, DocBad, EmptyDoc} \cup {Without(DocGood, k) : k \in Required}

----------------------------------------------------------------------------
(* NOAADataSet *)

\* a mutant: the cache file is never loaded
MetadataFromJsonNever(mf) == EmptyDoc

\* metadata_from_json: the document of the cache file, {} without a file
MetadataFromJson(mf) == IF mf.exists THEN mf.doc ELSE EmptyDoc

\* NOAAEvent.__init__
NOAAEvent(label, lon, lat) == [label |-> label, lat |-> lat, lon |-> lon]

\* a mutant: the first coordinate is taken as the longitude
SiteEventLonFirst(site) ==
    LET lon == site.coordinates[1]
        lat == site.coordinates[2]
    IN  NOAAEvent(site.siteName, lon, lat)

\* get_data: lat = coordinates[0], lon = coordinates[1] (0-based)
SiteEvent(site) ==
    LET lat == site.coordinates[1]
        lon == site.coordinates[2]
    IN  NOAAEvent(site.siteName, lon, lat)

\* for table in site['paleoData']: for d in table['dataFile']: d['fileUrl']
RECURSIVE Flatten(_)
Flatten(ss) == IF ss = <<>> THEN <<>> ELSE Head(ss) \o Flatten(Tail(ss))

SiteFiles(site) == Flatten(site.paleoData)

\* a mutant: entries already in the mapping are kept
ParamsUpdateKeepOld(old, new) ==
    [k \in DOMAIN old \cup DOMAIN new |->
        IF k \in DOMAIN old THEN old[k] ELSE new[k]]

\* self.params.update(t.params)
ParamsUpdate(old, new) ==
    [k \in DOMAIN old \cup DOMAIN new |->
        IF k \in DOMAIN new THEN new[k] ELSE old[k]]

\* NOAADataSet(id, cache): the attributes are set and the cache file is read
NewDataSet(c) ==
    /\ bpc = "idle"
    /\ builds < MaxBuilds
    /\ cache' = c
    /\ metadata' = IF c THEN MetadataFromJson(metaFile) ELSE EmptyDoc
    /\ link' = None /\ doi' = None /\ title' = None
    /\ data' = <<>> /\ dsparams' = <<>> /\ events' = <<>>
    /\ site_i' = 0 /\ files' = <<>> /\ file_n' = 0 /\ event' = None
    /\ result' = "building"
    /\ bpc' = IF IsEmpty(metadata') THEN "fetch" ELSE "fields"
    /\ builds' = builds + 1
    /\ allCached' = (allCached /\ c)
    /\ visited' = <<>> /\ parsed' = <<>> /\ tables' = <<>> /\ caught' = "none"
    /\ UNCHANGED <<worldVars, fetchCount, wasted, writeCount, tableVars>>

\* get_metadata: the request succeeds; metadata_to_json when caching
GetMetadata(doc) ==
    /\ bpc = "fetch"
    /\ fetchCount' = fetchCount + 1
    /\ wasted' = IF IsEmpty(doc) THEN wasted + 1 ELSE wasted
    /\ metadata' = doc
    /\ IF cache THEN metaFile' = FileOf(doc) /\ writeCount' = writeCount + 1
                ELSE UNCHANGED <<metaFile, writeCount>>
    /\ bpc' = "fields"
    /\ UNCHANGED <<fs, cache, link, doi, title, data, dsparams, events, site_i,
                   files, file_n, event, result, builds, allCached, visited,
                   parsed, tables, caught, tableVars>>

\* get_metadata: the request (or response['study'][0]) raises; the
\* exception leaves __init__
GetMetadataRaise ==
    /\ bpc = "fetch"
    /\ fetchCount' = fetchCount + 1
    /\ wasted' = wasted + 1
    /\ result' = "raised"
    /\ bpc' = "idle"
    /\ UNCHANGED <<worldVars, cache, metadata, link, doi, title, data, dsparams,
                   events, site_i, files, file_n, event, builds, allCached,
                   writeCount, visited, parsed, tables, caught, tableVars>>

\* self.link, self.doi, self.title are read from the document
ReadFields ==
    /\ bpc = "fields"
    /\ {"onlineResourceLink", "doi", "studyName"} \subseteq DOMAIN metadata
    /\ link' = metadata["onlineResourceLink"]
    /\ doi' = metadata["doi"]
    /\ title' = metadata["studyName"]
    /\ bpc' = "get_data"
    /\ UNCHANGED <<worldVars, cache, metadata, data, dsparams, events, site_i,
                   files, file_n, event, result, histVars, tableVars>>

\* one of the three lookups raises KeyError, outside any try
ReadFieldsRaise ==
    /\ bpc = "fields"
    /\ ~({"onlineResourceLink", "doi", "studyName"} \subseteq DOMAIN metadata)
    /\ link' = IF "onlineResourceLink" \in DOMAIN metadata
               THEN metadata["onlineResourceLink"] ELSE link
    /\ doi' = IF {"onlineResourceLink", "doi"} \subseteq DOMAIN metadata
              THEN metadata["doi"] ELSE doi
    /\ result' = "raised"
    /\ bpc' = "idle"
    /\ UNCHANGED <<worldVars, cache, metadata, title, data, dsparams, events,
                   site_i, files, file_n, event, histVars, tableVars>>

\* get_data up to the loop over self.metadata['site']
GetData ==
    /\ bpc = "get_data"
    /\ "site" \in DOMAIN metadata
    /\ data' = <<>> /\ dsparams' = <<>> /\ events' = <<>>
    /\ site_i' = 1
    /\ bpc' = "site"
    /\ UNCHANGED <<worldVars, cache, metadata, link, doi, title, files, file_n,
                   event, result, histVars, tableVars>>

\* self.metadata['site'] raises KeyError inside the try of __init__, which
\* logs it; the constructor returns
GetDataNoSite ==
    /\ bpc = "get_data"
    /\ "site" \notin DOMAIN metadata
    /\ data' = <<>> /\ dsparams' = <<>> /\ events' = <<>>
    /\ caught' = "site"
    /\ result' = "returned"
    /\ bpc' = "idle"
    /\ UNCHANGED <<worldVars, cache, metadata, link, doi, title, site_i, files,
                   file_n, event, builds, allCached, fetchCount, wasted,
                   writeCount, visited, parsed, tables, tableVars>>

\* the next site: its NOAAEvent is made and appended
NextSite ==
    /\ bpc = "site"
    /\ site_i <= Len(metadata["site"])
    /\ event' = SiteEvent(metadata["site"][site_i])
    /\ events' = Append(events, event')
    /\ files' = SiteFiles(metadata["site"][site_i])
    /\ file_n' = 1
    /\ bpc' = "file"
    /\ UNCHANGED <<worldVars, cache, metadata, link, doi, title, data, dsparams,
                   site_i, result, histVars, tableVars>>

\* the loop over the sites is over: get_data and the constructor return
Finish ==
    /\ bpc = "site"
    /\ site_i > Len(metadata["site"])
    /\ result' = "returned"
    /\ bpc' = "idle"
    /\ UNCHANGED <<worldVars, cache, metadata, link, doi, title, data, dsparams,
                   events, site_i, files, file_n, event, histVars, tableVars>>

\* the files of the site are done
SiteDone ==
    /\ bpc = "file"
    /\ file_n > Len(files)
    /\ site_i' = site_i + 1
    /\ bpc' = "site"
    /\ UNCHANGED <<worldVars, cache, metadata, link, doi, title, data, dsparams,
                   events, files, file_n, event, result, histVars, tableVars>>

\* the local file is missing and the download raises: the exception reaches
\* the except clause of __init__
FileDownloadRaise ==
    /\ bpc = "file"
    /\ file_n <= Len(files)
    /\ LET url == files[file_n]
           local_file == LocalFile(url)
       IN  /\ ~Exists(fs, local_file)
           /\ fs' = Download(fs, url, local_file, FALSE)
           /\ visited' = Append(visited, <<site_i, file_n>>)
    /\ caught' = "download"
    /\ result' = "returned"
    /\ bpc' = "idle"
    /\ UNCHANGED <<metaFile, cache, metadata, link, doi, title, data, dsparams,
                   events, site_i, files, file_n, event, builds, allCached,
                   fetchCount, wasted, writeCount, parsed, tables, tableVars>>

\* the file is there (downloaded if it was missing) and its name does not
\* end in "txt": nothing more is done with it
FileNotTxt ==
    /\ bpc = "file"
    /\ file_n <= Len(files)
    /\ LET url == files[file_n]
           local_file == LocalFile(url)
       IN  /\ fs' = IF Exists(fs, local_file) THEN fs
                    ELSE Download(fs, url, local_file, TRUE)
           /\ Ext(local_file) # TxtExt
           /\ visited' = Append(visited, <<site_i, file_n>>)
    /\ file_n' = file_n + 1
    /\ UNCHANGED <<metaFile, bpc, cache, metadata, link, doi, title, data,
                   dsparams, events, site_i, files, event, result, builds,
                   allCached, fetchCount, wasted, writeCount, parsed, tables,
                   caught, tableVars>>

\* the file is there (downloaded if it was missing), its name ends in "txt"
\* and from_txtfile returns a table: rows and parameters are merged
FileParsed ==
    /\ bpc = "file"
    /\ file_n <= Len(files)
    /\ LET url == files[file_n]
           local_file == LocalFile(url)
       IN  /\ fs' = IF Exists(fs, local_file) THEN fs
                    ELSE Download(fs, url, local_file, TRUE)
           /\ Ext(local_file) = TxtExt
           /\ ~IsDir(fs', local_file)
           /\ LET t == FromTxtfile(fs'[local_file].lines, event)
              IN  /\ ~t.raised
                  /\ data' = data \o t.data
                  /\ dsparams' = ParamsUpdate(dsparams, t.params)
                  /\ tables' = Append(tables, t)
           /\ visited' = Append(visited, <<site_i, file_n>>)
           /\ parsed' = Append(parsed, [path |-> local_file, isdir |-> FALSE,
                                        raised |-> FALSE])
    /\ file_n' = file_n + 1
    /\ UNCHANGED <<metaFile, bpc, cache, metadata, link, doi, title, events,
                   site_i, files, event, result, builds, allCached, fetchCount,
                   wasted, writeCount, caught, tableVars>>

\* the name ends in "txt" and from_txtfile raises (open() of a directory,
\* a declaration line without a token, read_csv): the exception reaches the
\* except clause of __init__, which logs it; the constructor returns
FileParseRaise ==
    /\ bpc = "file"
    /\ file_n <= Len(files)
    /\ LET url == files[file_n]
           local_file == LocalFile(url)
       IN  /\ fs' = IF Exists(fs, local_file) THEN fs
                    ELSE Download(fs, url, local_file, TRUE)
           /\ Ext(local_file) = TxtExt
           /\ \/ IsDir(fs', local_file)
              \/ /\ ~IsDir(fs', local_file)
                 /\ FromTxtfile(fs'[local_file].lines, event).raised
           /\ visited' = Append(visited, <<site_i, file_n>>)
           /\ parsed' = Append(parsed, [path |-> local_file,
                                        isdir |-> IsDir(fs', local_file),
                                        raised |-> TRUE])
           /\ caught' = IF IsDir(fs', local_file) THEN "dir" ELSE "parse"
    /\ result' = "returned"
    /\ bpc' = "idle"
    /\ UNCHANGED <<metaFile, cache, metadata, link, doi, title, data, dsparams,
                   events, site_i, files, file_n, event, builds, allCached,
                   fetchCount, wasted, writeCount, tables, tableVars>>

\* no study has been built; the cache directory may hold directories where
\* files are expected
Init ==
    /\ metaFile = NoFile
    /\ fs \in [LocalPaths -> {Absent, Directory}]
    /\ bpc = "idle"    /\ cache = TRUE  /\ metadata = EmptyDoc
    /\ link = None     /\ doi = None    /\ title = None
    /\ data = <<>>     /\ dsparams = <<>> /\ events = <<>>
    /\ site_i = 0      /\ files = <<>>  /\ file_n = 0 /\ event = None
    /\ result = "none"
    /\ builds = 0      /\ allCached = TRUE
    /\ fetchCount = 0  /\ wasted = 0    /\ writeCount = 0
    /\ visited = <<>>  /\ parsed = <<>> /\ tables = <<>> /\ caught = "none"
    /\ TableIdle

Next ==
    \/ \E c \in BOOLEAN : NewDataSet(c)
    \/ \E doc \in Docs : GetMetadata(doc)
    \/ GetMetadataRaise
    \/ ReadFields
    \/ ReadFieldsRaise
    \/ GetData
    \/ GetDataNoSite
    \/ NextSite
    \/ Finish
    \/ SiteDone
    \/ FileDownloadRaise
    \/ FileNotTxt
    \/ FileParsed
    \/ FileParseRaise

Spec == Init /\ [][Next]_vars

----------------------------------------------------------------------------
(* Properties of the renaming (SpecResolver) *)

Distinct(cols) == \A i, j \in DOMAIN cols : i # j => cols[i] # cols[j]

\* number of occurrences of cols[i] before position i
Earlier(cols, i) == Cardinality({j \in 1..(i - 1) : cols[j] = cols[i]})

ABAA == << <<"a">>, <<"b">>, <<"a">>, <<"a">> >>

\* C1: after the renaming the output has the length of the input and its
\* names are pairwise distinct, whatever the raw names were.
C1_UniqueNames ==
    tpc = "read" =>
        /\ Len(columns) = Len(raw_columns)
        /\ Distinct(columns)

\* C2: a name that occurs once is output unchanged; of a name that occurs
\* several times the first occurrence is output bare and the occurrence
\* with j earlier ones (j >= 1) is output as the name followed by the decimal
\* digit j; ["a","b","a","a"] gives ["a","b","a1","a2"].
C2_SuffixScheme ==
    tpc = "read" =>
        /\ DOMAIN columns = DOMAIN raw_columns
        /\ \A i \in DOMAIN raw_columns :
              LET nm == raw_columns[i]
                  j  == Earlier(raw_columns, i)
              IN  columns[i] = IF Count(raw_columns, nm) = 1 \/ j = 0 THEN nm
                               ELSE Append(nm, DigitChar[j + 1])
        /\ raw_columns = ABAA =>
              columns = << <<"a">>, <<"b">>, <<"a", "1">>, <<"a", "2">> >>
        /\ \A i \in DOMAIN params : params[i]["name"] = columns[i]

C2_Witness ==
    /\ tpc = "read"
    /\ raw_columns = ABAA
    /\ columns = << <<"a">>, <<"b">>, <<"a", "1">>, <<"a", "2">> >>

----------------------------------------------------------------------------
(* Properties of the header scan (SpecScan) *)

\* 1-based position of the last comment line of ls, 0 if there is none
LastComment(ls) ==
    LET C == {i \in DOMAIN ls : ls[i] # <<>> /\ ls[i][1] = "#"}
    IN  IF C = {} THEN 0 ELSE CHOOSE i \in C : \A j \in C : j <= i

ExampleLines == << <<"#","h","1">>, <<"#","h","2">>, <<"d","a","t","a","1">>,
                   <<"#","h","3">>, <<"d","a","t","a","2">> >>

\* C3: after every processed line skip + gap is the number of lines
\* processed and skip is the position of the last comment line among them
\* (0 if none); the tabular reader is handed exactly the lines after the last
\* comment line of the file; on the example file skip is 2 after two lines
\* and 4 at the end.
C3_SkipAccounting ==
    /\ skiprows + intermediate = pos
    /\ skiprows = LastComment(SubSeq(all_lines, 1, pos))
    /\ tpc # "scan" => pos = Len(all_lines) /\ skiprows = LastComment(all_lines)
    /\ tpc = "done" =>
          /\ body = SubSeq(all_lines, LastComment(all_lines) + 1, Len(all_lines))
          /\ \A i \in DOMAIN body : ~IsComment(body[i])
    /\ all_lines = ExampleLines =>
          /\ pos = 2 => skiprows = 2
          /\ pos = 5 => skiprows = 4

C3_Witness ==
    /\ all_lines = ExampleLines
    /\ tpc = "done"
    /\ skiprows = 4
    /\ body = << <<"d","a","t","a","2">> >>

----------------------------------------------------------------------------
(* Properties of the declaration parser (SpecDecl) *)

\* s with only its first occurrence of p removed
RemoveFirst(s, p) ==
    IF \E i \in 1..Len(s) : StartsWith(SubSeq(s, i, Len(s)), p)
    THEN LET i == CHOOSE k \in 1..Len(s) :
                     /\ StartsWith(SubSeq(s, k, Len(s)), p)
                     /\ \A m \in 1..(k - 1) : ~StartsWith(SubSeq(s, m, Len(s)), p)
         IN  SubSeq(s, 1, i - 1) \o SubSeq(s, i + Len(p), Len(s))
    ELSE s

\* C10: the parameter name is the first whitespace-delimited token and the
\* components are the comma-separated pieces of the line with only that
\* first token removed, so later occurrences of the name stay in them.
C10_FirstTokenOnly ==
    (tpc = "resolve" /\ Len(parameter_lines) = 1) =>
        LET line == parameter_lines[1]
            p    == SplitWs(line)[1]
            x    == Split(RemoveFirst(line, p), <<",">>)
            n    == Min(Len(x), Len(components))
        IN  /\ params[1]["name"] = p
            /\ DOMAIN params[1] = {"name"} \cup {components[i] : i \in 1..n}
            /\ \A i \in 1..n : params[1][components[i]] = Strip(x[i])

----------------------------------------------------------------------------
(* Properties of NOAADataSet (Spec) *)

GoodCache == metaFile.exists /\ ~IsEmpty(metaFile.doc)

\* C4 as claimed: with no cache file at the start and caching enabled in
\* every build, the metadata is fetched exactly once, in the first build, and
\* the cache file is written exactly once.
C4_FetchedExactlyOnce ==
    allCached =>
        /\ fetchCount <= 1
        /\ writeCount <= 1
        /\ (builds >= 1 /\ bpc # "fetch") => fetchCount = 1

\* C4 amended: with caching enabled in every build, every fetch but one
\* raised or returned an empty document, and nothing is written without a
\* fetch; the first build fetches; a cached build past its metadata step
\* holds the document of a non-empty cache file; and once the cache file
\* holds a non-empty document, no step of a cached build fetches, writes or
\* changes the cache file.
C4_FetchedOnceWhenFetchSucceeds ==
    /\ [](allCached =>
            /\ fetchCount <= wasted + 1
            /\ writeCount <= fetchCount
            /\ (builds >= 1 /\ bpc # "fetch") => fetchCount >= 1)
    /\ []((cache /\ GoodCache /\ bpc \notin {"idle", "fetch"}) =>
            metadata = metaFile.doc)
    /\ [][(GoodCache /\ cache') =>
            /\ fetchCount' = fetchCount
            /\ writeCount' = writeCount
            /\ metaFile' = metaFile]_vars

C4_Witness ==
    /\ allCached
    /\ builds = 2
    /\ bpc = "fields"
    /\ fetchCount = 1
    /\ writeCount = 1
    /\ metadata = DocGood

\* C5: when from_txtfile fails on a file, the build does not stop there:
\* by the end of the build every file reference of every site has been
\* processed.
C5_ParseFailureRecoverable ==
    (bpc = "idle" /\ caught = "parse") =>
        Range(visited) =
            UNION {{<<i, n>> : n \in DOMAIN SiteFiles(metadata["site"][i])} :
                      i \in DOMAIN metadata["site"]}

\* C6: a build whose metadata document lacks one of onlineResourceLink, doi,
\* studyName, site ends with an error and returns no object.
C6_MissingFieldFatal ==
    (bpc = "idle" /\ result \in {"returned", "raised"}
        /\ ~(Required \subseteq DOMAIN metadata)) => result = "raised"

C8_ParamMerge ==
    /\ DOMAIN dsparams = UNION {Range(tables[k].columns) : k \in DOMAIN tables}
    /\ \A nm \in DOMAIN dsparams :
          LET K    == {k \in DOMAIN tables : nm \in Range(tables[k].columns)}
              last == CHOOSE k \in K : \A m \in K : m <= k
          IN  dsparams[nm] = tables[last].params[nm]

C8_Witness ==
    /\ bpc = "idle" /\ result = "returned"
    /\ Len(tables) = 4
    /\ DOMAIN dsparams = {<<"a">>, <<"b">>, <<"c">>}
    /\ dsparams[<<"a">>] = tables[4].params[<<"a">>]
    /\ dsparams[<<"a">>] # tables[3].params[<<"a">>]
    /\ dsparams[<<"a">>].unit = KaBP

\* C9: from_txtfile is never called on a local path that is a directory,
\* and a directory never ends the build.
C9_DirectorySkipped ==
    /\ \A i \in DOMAIN parsed : ~parsed[i].isdir
    /\ caught # "dir"

\* C11: when the download of a data file raises, no file exists at that
\* file's local cache path afterwards, so that a later build finds the path
\* absent and downloads again; no build ever reads an empty or partial file
\* left behind by a failed download as if it were the downloaded file.
C11_FailedDownloadLeavesNoFile ==
    /\ (bpc = "idle" /\ caught = "download") =>
          ~Exists(fs, LocalFile(files[file_n]))
    /\ \A u \in Urls :
          (LocalFile(u) \in DOMAIN fs /\ fs[LocalFile(u)].kind = "file") =>
              fs[LocalFile(u)].lines = Remote(u)

====
